---- MODULE Spec2Model ----
(***************************************************************************)
(* Map-of-maps wrappers of aya: the userspace wrappers Array and HashMap   *)
(* (aya/src/maps/of_maps) over one outer kernel map, the calling process's *)
(* descriptor table, and the kernel's slot contents.                       *)
(***************************************************************************)
EXTENDS Integers, Sequences, FiniteSets, TLC

\* ---- bounds of the model ------------------------------------------------
MaxEntries == 2     \* max_entries of the outer map
NumInner == 2       \* inner maps that exist in the kernel (ids 1..NumInner)
NumFd == 1          \* descriptor numbers 1..NumFd besides the outer map's

\* ---- program constants --------------------------------------------------
BPF_MAP_TYPE_ARRAY_OF_MAPS == 12
BPF_MAP_TYPE_HASH_OF_MAPS == 13
SizeOfU32 == 4
SizeOfK == 8        \* K = u64 in HashMap<T, K>

\* ---- value spaces -------------------------------------------------------
MapIds == 1..NumInner
Keys == 0..(MaxEntries + 1)      \* indices a caller may pass: in bounds, N and N+1
HashKeys == 0..(MaxEntries - 1)  \* keys of type K a caller may pass
FdNums == 0..NumFd               \* 0 is the outer map's descriptor number
InnerFds == 1..NumFd
Closed == 0                      \* descriptor table entry: not open (after close)
NoMap == 0                       \* slot content / lookup value: no inner map
OuterTag == NumInner + 1         \* descriptor table entry: the outer map
OuterFd == 0                     \* the descriptor number a loaded outer map has
None == {}                       \* Option::None; Some(x) is {x}
Faults == {"none", "EPERM"}      \* the OS outcome of one syscall

MapTypes == {BPF_MAP_TYPE_ARRAY_OF_MAPS, BPF_MAP_TYPE_HASH_OF_MAPS}
Sizes == {SizeOfU32, SizeOfK}

VARIABLES
    map,        \* the generic handle: [def |-> bpf_map_def, fd |-> None or {number}]
    wrapper,    \* "none", "Array" or "HashMap": the wrapper built over map
    slots,      \* kernel: key -> id of the inner map the slot references, 0 if none
    fds,        \* calling process: descriptor number -> what it refers to
    written,    \* per key, the last write that returned Ok: "never", "set",
                \* "set_deleted" (a delete whose predecessor was a set), "deleted"
    installed,  \* per key, the map id passed to the last set/insert that returned Ok
    prog,       \* the eBPF program's static map wrapper, [kind |-> "none"] if none
    procs,      \* concurrent callers: where each is in its call, and what it holds
    kern,       \* kernel: per inner map, its reference count and whether it is alive
    last        \* the last completed call and all it did

vars == <<map, wrapper, slots, fds, written, installed, prog, procs, kern, last>>

\* ---- MapError -----------------------------------------------------------
Ok == [kind |-> "Ok"]
OkFd(fd) == [kind |-> "Ok", fd |-> fd]
InvalidMapType(t) == [kind |-> "InvalidMapType", map_type |-> t]
InvalidKeySize(size, expected) == [kind |-> "InvalidKeySize", size |-> size, expected |-> expected]
InvalidValueSize(size, expected) == [kind |-> "InvalidValueSize", size |-> size, expected |-> expected]
OutOfBounds(index, max_entries) == [kind |-> "OutOfBounds", index |-> index, max_entries |-> max_entries]
KeyNotFound == [kind |-> "KeyNotFound"]
NotCreated == [kind |-> "NotCreated"]
SyscallError(call, code, io_error) == [kind |-> "SyscallError", call |-> call, code |-> code, io_error |-> io_error]

IsOk(r) == r.kind = "Ok"

\* Map::fd_or_err
fd_or_err(m) == IF m.fd = None THEN NotCreated ELSE OkFd(CHOOSE f \in m.fd : TRUE)

\* ---- the syscall layer (crate::sys) and the kernel behind it --------------
\* Each call takes os, the outcome the OS imposes on it ("none": no failure
\* from outside the map's own state), and yields err ("none" on success).

\* which keys the outer map can take a new entry for
KernelCanHold(key) ==
    IF map.def.map_type = BPF_MAP_TYPE_ARRAY_OF_MAPS
    THEN key < map.def.max_entries
    ELSE \/ slots[key] # NoMap
         \/ Cardinality({k \in Keys : slots[k] # NoMap}) < map.def.max_entries

\* lookup_elem(fd, key, flags) -> Err | Ok(None) | Ok(Some(id))
bpf_map_lookup_elem(key, os) ==
    IF os # "none" THEN [err |-> os, val |-> NoMap]
    ELSE [err |-> "none", val |-> slots[key]]

\* update_elem(fd, key, value, flags) -> unit or error; the kernel takes its
\* own reference to the map the descriptor value refers to
bpf_map_update_elem(key, value, os) ==
    IF os # "none" THEN [err |-> os, slots |-> slots]
    ELSE IF fds[value] \notin MapIds THEN [err |-> "EBADF", slots |-> slots]
    ELSE IF ~KernelCanHold(key) THEN [err |-> "E2BIG", slots |-> slots]
    ELSE [err |-> "none", slots |-> [slots EXCEPT ![key] = fds[value]]]

\* delete_elem(fd, key) -> unit or error
bpf_map_delete_elem(key, os) ==
    IF os # "none" THEN [err |-> os, slots |-> slots]
    ELSE IF slots[key] = NoMap THEN [err |-> "ENOENT", slots |-> slots]
    ELSE [err |-> "none", slots |-> [slots EXCEPT ![key] = NoMap]]

FreeFds(table) == {n \in InnerFds : table[n] = Closed}
LowestFree(table) == CHOOSE n \in FreeFds(table) : \A o \in FreeFds(table) : n <= o

\* get_fd_by_id(id) -> fd: a new descriptor in the process's table, at the
\* lowest free number
bpf_map_get_fd_by_id(id, table, os) ==
    IF os # "none" THEN [err |-> os, fd |-> OuterFd, fds |-> table]
    ELSE IF FreeFds(table) = {} THEN [err |-> "EMFILE", fd |-> OuterFd, fds |-> table]
    ELSE [err |-> "none", fd |-> LowestFree(table),
          fds |-> [table EXCEPT ![LowestFree(table)] = id]]

\* libc::close(fd)
close(table, fd) == [table EXCEPT ![fd] = Closed]

Call(name, err) == [call |-> name, err |-> err]

\* the raw return value of a bpf syscall: negative when it fails
RawCode(err) == IF err = "none" THEN 0 ELSE -1

\* ---- Array ---------------------------------------------------------------
\* Array::new without the value_size check
ArrayNewNoValueCheck(m) ==
    IF m.def.map_type # BPF_MAP_TYPE_ARRAY_OF_MAPS THEN InvalidMapType(m.def.map_type)
    ELSE IF m.def.key_size # SizeOfU32 THEN InvalidKeySize(m.def.key_size, SizeOfU32)
    ELSE IF ~IsOk(fd_or_err(m)) THEN fd_or_err(m)
    ELSE Ok

\* Array::new with the key_size check moved before the type check
ArrayNewKeyFirst(m) ==
    IF m.def.key_size # SizeOfU32 THEN InvalidKeySize(m.def.key_size, SizeOfU32)
    ELSE IF m.def.map_type # BPF_MAP_TYPE_ARRAY_OF_MAPS THEN InvalidMapType(m.def.map_type)
    ELSE IF m.def.value_size # SizeOfU32 THEN InvalidValueSize(m.def.value_size, SizeOfU32)
    ELSE IF ~IsOk(fd_or_err(m)) THEN fd_or_err(m)
    ELSE Ok

\* Array::new without the fd_or_err()? line
ArrayNewNoLoadCheck(m) ==
    IF m.def.map_type # BPF_MAP_TYPE_ARRAY_OF_MAPS THEN InvalidMapType(m.def.map_type)
    ELSE IF m.def.key_size # SizeOfU32 THEN InvalidKeySize(m.def.key_size, SizeOfU32)
    ELSE IF m.def.value_size # SizeOfU32 THEN InvalidValueSize(m.def.value_size, SizeOfU32)
    ELSE Ok

\* Array::new
ArrayNewResult(m) ==
    IF m.def.map_type # BPF_MAP_TYPE_ARRAY_OF_MAPS THEN InvalidMapType(m.def.map_type)
    ELSE IF m.def.key_size # SizeOfU32 THEN InvalidKeySize(m.def.key_size, SizeOfU32)
    ELSE IF m.def.value_size # SizeOfU32 THEN InvalidValueSize(m.def.value_size, SizeOfU32)
    ELSE IF ~IsOk(fd_or_err(m)) THEN fd_or_err(m)
    ELSE Ok

\* check_bounds with the comparison off by one
check_bounds_inclusive(index) ==
    IF index > map.def.max_entries
    THEN OutOfBounds(index, map.def.max_entries)
    ELSE Ok

\* Array::check_bounds
check_bounds(index) ==
    IF index >= map.def.max_entries
    THEN OutOfBounds(index, map.def.max_entries)
    ELSE Ok

\* the close applied to the outer map's descriptor as well
CloseSuppliedAndOuter(map_fd) ==
    [fds |-> close(close(fds, map_fd), OuterFd), closed |-> <<map_fd, OuterFd>>]

\* the tail of Array::set / HashMap::insert: close the raw descriptor
CloseSupplied(map_fd) == [fds |-> close(fds, map_fd), closed |-> <<map_fd>>]

Out(res, sl, table, closed, calls) ==
    [res |-> res, slots |-> sl, fds |-> table, closed |-> closed, calls |-> calls]

\* get returning the looked-up id as if it were a descriptor (no resolution)
LookupAndResolveRawId(key, table, os1, os2) ==
    LET l == bpf_map_lookup_elem(key, os1) IN
    IF l.err # "none"
    THEN Out(SyscallError("bpf_map_lookup_elem", -1, l.err), slots, table, <<>>,
             <<Call("bpf_map_lookup_elem", l.err)>>)
    ELSE IF l.val = NoMap
    THEN Out(KeyNotFound, slots, table, <<>>, <<Call("bpf_map_lookup_elem", "none")>>)
    ELSE Out(OkFd(l.val), slots, table, <<>>, <<Call("bpf_map_lookup_elem", "none")>>)

\* get without the ok_or(KeyNotFound): an absent entry goes on to the
\* resolution, which fails for the id of no map
LookupAndResolveNoneUnchecked(key, table, os1, os2) ==
    LET l == bpf_map_lookup_elem(key, os1) IN
    IF l.err # "none"
    THEN Out(SyscallError("bpf_map_lookup_elem", -1, l.err), slots, table, <<>>,
             <<Call("bpf_map_lookup_elem", l.err)>>)
    ELSE LET g == IF l.val = NoMap THEN [err |-> "ENOENT", fd |-> OuterFd, fds |-> table]
                  ELSE bpf_map_get_fd_by_id(l.val, table, os2) IN
         IF g.err # "none"
         THEN Out(SyscallError("bpf_map_get_fd_by_id", 0, g.err), slots, table, <<>>,
                  <<Call("bpf_map_lookup_elem", "none"), Call("bpf_map_get_fd_by_id", g.err)>>)
         ELSE Out(OkFd(g.fd), slots, g.fds, <<>>,
                  <<Call("bpf_map_lookup_elem", "none"), Call("bpf_map_get_fd_by_id", "none")>>)

\* the two syscalls of get, the same text in Array::get and HashMap::get
\* (table: the process's descriptor table when the call starts)
LookupAndResolve(key, table, os1, os2) ==
    LET l == bpf_map_lookup_elem(key, os1) IN
    IF l.err # "none"
    THEN Out(SyscallError("bpf_map_lookup_elem", -1, l.err), slots, table, <<>>,
             <<Call("bpf_map_lookup_elem", l.err)>>)
    ELSE IF l.val = NoMap
    THEN Out(KeyNotFound, slots, table, <<>>, <<Call("bpf_map_lookup_elem", "none")>>)
    ELSE LET g == bpf_map_get_fd_by_id(l.val, table, os2) IN
         IF g.err # "none"
         THEN Out(SyscallError("bpf_map_get_fd_by_id", 0, g.err), slots, table, <<>>,
                  <<Call("bpf_map_lookup_elem", "none"), Call("bpf_map_get_fd_by_id", g.err)>>)
         ELSE Out(OkFd(g.fd), slots, g.fds, <<>>,
                  <<Call("bpf_map_lookup_elem", "none"), Call("bpf_map_get_fd_by_id", "none")>>)

\* Array::get
ArrayGetOut(index, os1, os2) ==
    IF ~IsOk(check_bounds(index)) THEN Out(check_bounds(index), slots, fds, <<>>, <<>>)
    ELSE IF ~IsOk(fd_or_err(map)) THEN Out(fd_or_err(map), slots, fds, <<>>, <<>>)
    ELSE LookupAndResolve(index, fds, os1, os2)

\* set issuing the update a second time when the first one fails
ArraySetRetry(index, map_fd, os) ==
    IF ~IsOk(fd_or_err(map)) THEN Out(fd_or_err(map), slots, fds, <<>>, <<>>)
    ELSE IF ~IsOk(check_bounds(index)) THEN Out(check_bounds(index), slots, fds, <<>>, <<>>)
    ELSE LET u == bpf_map_update_elem(index, map_fd, os) IN
         IF u.err # "none"
         THEN Out(SyscallError("bpf_map_update_elem", -1, u.err), slots, fds, <<>>,
                  <<Call("bpf_map_update_elem", u.err), Call("bpf_map_update_elem", u.err)>>)
         ELSE Out(Ok, u.slots, CloseSupplied(map_fd).fds, CloseSupplied(map_fd).closed,
                  <<Call("bpf_map_update_elem", "none")>>)

\* Array::set
ArraySetOut(index, map_fd, os) ==
    IF ~IsOk(fd_or_err(map)) THEN Out(fd_or_err(map), slots, fds, <<>>, <<>>)
    ELSE IF ~IsOk(check_bounds(index)) THEN Out(check_bounds(index), slots, fds, <<>>, <<>>)
    ELSE LET u == bpf_map_update_elem(index, map_fd, os) IN
         IF u.err # "none"
         THEN Out(SyscallError("bpf_map_update_elem", -1, u.err), slots, fds, <<>>,
                  <<Call("bpf_map_update_elem", u.err)>>)
         ELSE Out(Ok, u.slots, CloseSupplied(map_fd).fds, CloseSupplied(map_fd).closed,
                  <<Call("bpf_map_update_elem", "none")>>)

\* delete returning Ok without the delete syscall
ArrayDeleteNoSyscall(index, os) ==
    IF ~IsOk(fd_or_err(map)) THEN Out(fd_or_err(map), slots, fds, <<>>, <<>>)
    ELSE IF ~IsOk(check_bounds(index)) THEN Out(check_bounds(index), slots, fds, <<>>, <<>>)
    ELSE Out(Ok, slots, fds, <<>>, <<>>)

\* delete with the bounds check after the delete syscall
ArrayDeleteBoundsLate(index, os) ==
    IF ~IsOk(fd_or_err(map)) THEN Out(fd_or_err(map), slots, fds, <<>>, <<>>)
    ELSE LET d == bpf_map_delete_elem(index, os) IN
         IF ~IsOk(check_bounds(index))
         THEN Out(check_bounds(index), d.slots, fds, <<>>,
                  <<Call("bpf_map_delete_elem", d.err)>>)
         ELSE IF d.err # "none"
         THEN Out(SyscallError("bpf_map_delete_elem", -1, d.err), slots, fds, <<>>,
                  <<Call("bpf_map_delete_elem", d.err)>>)
         ELSE Out(Ok, d.slots, fds, <<>>, <<Call("bpf_map_delete_elem", "none")>>)

\* Array::delete
ArrayDeleteOut(index, os) ==
    IF ~IsOk(fd_or_err(map)) THEN Out(fd_or_err(map), slots, fds, <<>>, <<>>)
    ELSE IF ~IsOk(check_bounds(index)) THEN Out(check_bounds(index), slots, fds, <<>>, <<>>)
    ELSE LET d == bpf_map_delete_elem(index, os) IN
         IF d.err # "none"
         THEN Out(SyscallError("bpf_map_delete_elem", -1, d.err), slots, fds, <<>>,
                  <<Call("bpf_map_delete_elem", d.err)>>)
         ELSE Out(Ok, d.slots, fds, <<>>, <<Call("bpf_map_delete_elem", "none")>>)

\* ---- HashMap<T, K> ---------------------------------------------------------
\* hash_map::check_kv_size::<K, u32>
check_kv_size(m) ==
    IF m.def.key_size # SizeOfK THEN InvalidKeySize(m.def.key_size, SizeOfK)
    ELSE IF m.def.value_size # SizeOfU32 THEN InvalidValueSize(m.def.value_size, SizeOfU32)
    ELSE Ok

\* HashMap::new
HashMapNewResult(m) ==
    IF m.def.map_type # BPF_MAP_TYPE_HASH_OF_MAPS THEN InvalidMapType(m.def.map_type)
    ELSE IF ~IsOk(check_kv_size(m)) THEN check_kv_size(m)
    ELSE IF ~IsOk(fd_or_err(m)) THEN fd_or_err(m)
    ELSE Ok

\* HashMap::get
HashMapGetOut(key, table, os1, os2) ==
    IF ~IsOk(fd_or_err(map)) THEN Out(fd_or_err(map), slots, table, <<>>, <<>>)
    ELSE LookupAndResolve(key, table, os1, os2)

\* IterableMap::get yielding the looked-up id instead of a descriptor
IterableMapGetRawId(key, table, os1, os2) ==
    IF ~IsOk(fd_or_err(map)) THEN Out(fd_or_err(map), slots, table, <<>>, <<>>)
    ELSE LookupAndResolveRawId(key, table, os1, os2)

\* IterableMap<K, RawFd>::get for HashMap: HashMap::get(self, key, 0)
IterableMap_get(key, table, os1, os2) == HashMapGetOut(key, table, os1, os2)

\* MapKeys: the keys the kernel's key iteration yields, as a sequence
RECURSIVE MapKeys(_)
MapKeys(ks) ==
    IF ks = {} THEN <<>>
    ELSE LET k == CHOOSE x \in ks : \A y \in ks : x <= y
         IN <<k>> \o MapKeys(ks \ {k})

\* MapIter drained: for each key of MapKeys one IterableMap::get; an Ok value
\* is yielded as the pair (key, value), KeyNotFound is skipped, any other
\* error is yielded as the item.  bad: the keys at whose lookup the OS fails.
RECURSIVE MapIter(_, _, _)
MapIter(ks, table, bad) ==
    IF ks = <<>> THEN [items |-> <<>>, fds |-> table, calls |-> <<>>]
    ELSE LET o == IterableMap_get(Head(ks), table,
                                  IF Head(ks) \in bad THEN "EPERM" ELSE "none", "none")
             rest == MapIter(Tail(ks), o.fds, bad)
         IN [items |-> IF o.res.kind = "KeyNotFound" THEN rest.items
                       ELSE <<IF IsOk(o.res)
                              THEN [kind |-> "Ok", key |-> Head(ks), fd |-> o.res.fd]
                              ELSE o.res>> \o rest.items,
             fds |-> rest.fds,
             calls |-> o.calls \o rest.calls]

\* HashMap::iter, drained by the caller
HashMapIterOut(bad) ==
    MapIter(MapKeys({k \in Keys : slots[k] # NoMap}), fds, bad)

\* hash_map::insert
hash_map_insert(key, value, os) ==
    IF ~IsOk(fd_or_err(map)) THEN Out(fd_or_err(map), slots, fds, <<>>, <<>>)
    ELSE LET u == bpf_map_update_elem(key, value, os) IN
         IF u.err # "none"
         THEN Out(SyscallError("bpf_map_update_elem", -1, u.err), slots, fds, <<>>,
                  <<Call("bpf_map_update_elem", u.err)>>)
         ELSE Out(Ok, u.slots, fds, <<>>, <<Call("bpf_map_update_elem", "none")>>)

\* HashMap::insert
HashMapInsertOut(key, map_fd, os) ==
    LET i == hash_map_insert(key, map_fd, os) IN
    IF ~IsOk(i.res) THEN i
    ELSE Out(Ok, i.slots, CloseSupplied(map_fd).fds, CloseSupplied(map_fd).closed, i.calls)

\* hash_map::remove
hash_map_remove(key, os) ==
    IF ~IsOk(fd_or_err(map)) THEN Out(fd_or_err(map), slots, fds, <<>>, <<>>)
    ELSE LET d == bpf_map_delete_elem(key, os) IN
         IF d.err # "none"
         THEN Out(SyscallError("bpf_map_delete_elem", -1, d.err), slots, fds, <<>>,
                  <<Call("bpf_map_delete_elem", d.err)>>)
         ELSE Out(Ok, d.slots, fds, <<>>, <<Call("bpf_map_delete_elem", "none")>>)

\* HashMap::remove
HashMapRemoveOut(key, os) == hash_map_remove(key, os)

\* ---- the state machine ----------------------------------------------------
\* the record of one completed call: the operation, its arguments (fd: the
\* descriptor number supplied, m: the inner map it referred to), the slot
\* content before the call, the value returned, what the call closed and the
\* syscalls it issued
Done(op, key, fd, res, closed, calls) ==
    [op |-> op, key |-> key, fd |-> fd,
     m |-> IF fd = None THEN NoMap ELSE fds[CHOOSE n \in fd : TRUE],
     pre |-> slots[key], res |-> res, closed |-> closed, calls |-> calls]

Defs == [map_type : MapTypes, key_size : Sizes, value_size : Sizes,
         max_entries : {MaxEntries}]

NoProg == [kind |-> "none"]

\* the callers of one handle run one call at a time, and the lifetime of the
\* inner maps is not followed
Callers == {"c1", "c2"}
Idle(held) == [pc |-> "idle", key |-> 0, arg |-> 0, seen |-> 0, held |-> held]
Sequential ==
    /\ procs = [p \in Callers |-> Idle({})]
    /\ kern = [m \in MapIds |-> [refs |-> 0, life |-> "untracked"]]

Init ==
    /\ map \in [def : Defs, fd : {None, {OuterFd}}]
    /\ prog = NoProg
    /\ Sequential
    /\ wrapper = "none"
    /\ slots = [k \in Keys |-> NoMap]
    /\ fds = [n \in FdNums |-> IF n = OuterFd /\ map.fd # None THEN OuterTag ELSE Closed]
    /\ written = [k \in Keys |-> "never"]
    /\ installed = [k \in Keys |-> NoMap]
    /\ last = Done("init", 0, None, Ok, <<>>, <<>>)

\* TryFrom<MapRef / MapRefMut> for Array
ArrayNew ==
    /\ wrapper = "none"
    /\ wrapper' = IF IsOk(ArrayNewResult(map)) THEN "Array" ELSE "none"
    /\ last' = Done("Array::new", 0, None, ArrayNewResult(map), <<>>, <<>>)
    /\ UNCHANGED <<procs, kern, prog, map, slots, fds, written, installed>>

\* TryFrom<MapRef / MapRefMut> for HashMap
HashMapNew ==
    /\ wrapper = "none"
    /\ wrapper' = IF IsOk(HashMapNewResult(map)) THEN "HashMap" ELSE "none"
    /\ last' = Done("HashMap::new", 0, None, HashMapNewResult(map), <<>>, <<>>)
    /\ UNCHANGED <<procs, kern, prog, map, slots, fds, written, installed>>

\* a call that reads: get
Read(op, key, o) ==
    /\ slots' = o.slots
    /\ fds' = o.fds
    /\ last' = Done(op, key, None, o.res, o.closed, o.calls)
    /\ UNCHANGED <<procs, kern, prog, map, wrapper, written, installed>>

\* a call that installs the map behind descriptor map_fd: set / insert
Install(op, key, map_fd, o) ==
    /\ slots' = o.slots
    /\ fds' = o.fds
    /\ last' = Done(op, key, {map_fd}, o.res, o.closed, o.calls)
    /\ written' = IF IsOk(o.res) THEN [written EXCEPT ![key] = "set"] ELSE written
    /\ installed' = IF IsOk(o.res) THEN [installed EXCEPT ![key] = fds[map_fd]] ELSE installed
    /\ UNCHANGED <<procs, kern, prog, map, wrapper>>

\* a call that removes: delete / remove
Remove(op, key, o) ==
    /\ slots' = o.slots
    /\ fds' = o.fds
    /\ last' = Done(op, key, None, o.res, o.closed, o.calls)
    /\ written' = IF IsOk(o.res)
                  THEN [written EXCEPT ![key] = IF written[key] = "set" THEN "set_deleted"
                                                ELSE "deleted"]
                  ELSE written
    /\ installed' = IF IsOk(o.res) THEN [installed EXCEPT ![key] = NoMap] ELSE installed
    /\ UNCHANGED <<procs, kern, prog, map, wrapper>>

ArrayGet ==
    /\ wrapper = "Array"
    /\ \E index \in Keys, os1 \in Faults, os2 \in Faults :
          Read("get", index, ArrayGetOut(index, os1, os2))

\* the caller supplies a descriptor it owns, open on an inner map
ArraySet ==
    /\ wrapper = "Array"
    /\ \E index \in Keys, map_fd \in InnerFds, os \in Faults :
          /\ fds[map_fd] \in MapIds
          /\ Install("set", index, map_fd, ArraySetOut(index, map_fd, os))

ArrayDelete ==
    /\ wrapper = "Array"
    /\ \E index \in Keys, os \in Faults :
          Remove("delete", index, ArrayDeleteOut(index, os))

HashMapGet ==
    /\ wrapper = "HashMap"
    /\ \E key \in HashKeys, os1 \in Faults, os2 \in Faults :
          Read("get", key, HashMapGetOut(key, fds, os1, os2))

HashMapInsert ==
    /\ wrapper = "HashMap"
    /\ \E key \in HashKeys, map_fd \in InnerFds, os \in Faults :
          /\ fds[map_fd] \in MapIds
          /\ Install("insert", key, map_fd, HashMapInsertOut(key, map_fd, os))

HashMapRemove ==
    /\ wrapper = "HashMap"
    /\ \E key \in HashKeys, os \in Faults :
          Remove("remove", key, HashMapRemoveOut(key, os))

HashMapIter ==
    /\ wrapper = "HashMap"
    /\ \E bad \in SUBSET HashKeys :
          /\ fds' = HashMapIterOut(bad).fds
          /\ last' = Done("iter", 0, None,
                          [kind |-> "Ok", items |-> HashMapIterOut(bad).items], <<>>,
                          HashMapIterOut(bad).calls)
    /\ UNCHANGED <<procs, kern, prog, map, wrapper, slots, written, installed>>

\* the caller obtains a descriptor of inner map m (creates or reopens it)
CallerOpen ==
    /\ FreeFds(fds) # {}
    /\ \E m \in MapIds :
          /\ fds' = [fds EXCEPT ![LowestFree(fds)] = m]
          /\ last' = Done("open", 0, None, Ok, <<>>, <<>>)
    /\ UNCHANGED <<procs, kern, prog, map, wrapper, slots, written, installed>>

\* the caller releases a descriptor it owns (one it opened, or one get returned)
CallerClose ==
    /\ \E n \in InnerFds :
          /\ fds[n] \in MapIds
          /\ fds' = close(fds, n)
          /\ last' = Done("close", 0, None, Ok, <<>>, <<>>)
    /\ UNCHANGED <<procs, kern, prog, map, wrapper, slots, written, installed>>

Next ==
    \/ ArrayNew
    \/ HashMapNew
    \/ ArrayGet
    \/ ArraySet
    \/ ArrayDelete
    \/ HashMapGet
    \/ HashMapInsert
    \/ HashMapRemove
    \/ HashMapIter
    \/ CallerOpen
    \/ CallerClose

Spec == Init /\ [][Next]_vars

\* ---- the embedded (eBPF-side) wrappers -----------------------------------------
PinningType_None == 0
PinningType_ByName == 1
MapFlags == 0..3                           \* flags: u32 given to a constructor
Capacities == {MaxEntries - 1, MaxEntries} \* max_entries: u32 given to a constructor

\* ArrayOfMaps::with_max_entries
ArrayOfMaps_with_max_entries(max_entries, flags) ==
    [def |-> [type_ |-> BPF_MAP_TYPE_ARRAY_OF_MAPS,
              key_size |-> SizeOfU32,
              value_size |-> SizeOfU32,
              max_entries |-> max_entries,
              map_flags |-> flags,
              id |-> 0,
              pinning |-> PinningType_None]]

\* ArrayOfMaps::pinned
ArrayOfMaps_pinned(max_entries, flags) ==
    [def |-> [type_ |-> BPF_MAP_TYPE_ARRAY_OF_MAPS,
              key_size |-> SizeOfU32,
              value_size |-> SizeOfU32,
              max_entries |-> max_entries,
              map_flags |-> flags,
              id |-> 0,
              pinning |-> PinningType_ByName]]

\* HashOfMaps::with_max_entries with the key size of u32 instead of K
HashOfMapsKeyU32(max_entries, flags) ==
    [def |-> [type_ |-> BPF_MAP_TYPE_HASH_OF_MAPS,
              key_size |-> SizeOfU32,
              value_size |-> SizeOfU32,
              max_entries |-> max_entries,
              map_flags |-> flags,
              id |-> 0,
              pinning |-> PinningType_None]]

\* HashOfMaps::<K>::with_max_entries
HashOfMaps_with_max_entries(max_entries, flags) ==
    [def |-> [type_ |-> BPF_MAP_TYPE_HASH_OF_MAPS,
              key_size |-> SizeOfK,
              value_size |-> SizeOfU32,
              max_entries |-> max_entries,
              map_flags |-> flags,
              id |-> 0,
              pinning |-> PinningType_None]]

\* HashOfMaps::<K>::pinned
HashOfMaps_pinned(max_entries, flags) ==
    [def |-> [type_ |-> BPF_MAP_TYPE_HASH_OF_MAPS,
              key_size |-> SizeOfK,
              value_size |-> SizeOfU32,
              max_entries |-> max_entries,
              map_flags |-> flags,
              id |-> 0,
              pinning |-> PinningType_ByName]]

\* the static of a program: which constructor built it, from which arguments
Static(kind, ctor, max_entries, flags) ==
    [kind |-> kind, ctor |-> ctor, max_entries |-> max_entries, flags |-> flags,
     obj |-> IF kind = "ArrayOfMaps"
             THEN IF ctor = "with_max_entries"
                  THEN ArrayOfMaps_with_max_entries(max_entries, flags)
                  ELSE ArrayOfMaps_pinned(max_entries, flags)
             ELSE IF ctor = "with_max_entries"
                  THEN HashOfMaps_with_max_entries(max_entries, flags)
                  ELSE HashOfMaps_pinned(max_entries, flags)]

Statics == {Static(kind, ctor, max_entries, flags) :
               kind \in {"ArrayOfMaps", "HashOfMaps"},
               ctor \in {"with_max_entries", "pinned"},
               max_entries \in Capacities,
               flags \in MapFlags}

\* the loader's view of a bpf_map_def found in the program image
ParsedDef(def) ==
    [map_type |-> def.type_, key_size |-> def.key_size, value_size |-> def.value_size,
     max_entries |-> def.max_entries, map_flags |-> def.map_flags,
     id |-> def.id, pinning |-> def.pinning]

\* the helper bpf_map_lookup_elem(map, key): a pointer to the value, null
\* (None) when the outer map holds nothing under key
helpers_bpf_map_lookup_elem(def, key) ==
    IF key \in DOMAIN slots /\ slots[key] # NoMap
    THEN {slots[key]}
    ELSE None

OptionNone == [kind |-> "None"]
OptionSome(v) == [kind |-> "Some", value |-> v]

\* get returning the index it was given instead of the value found
ArrayOfMapsGetIndex(index) ==
    LET value == helpers_bpf_map_lookup_elem(prog.obj.def, index) IN
    [res |-> IF value = None THEN OptionNone ELSE OptionSome(index),
     slots |-> slots,
     calls |-> <<Call("bpf_map_lookup_elem", "none")>>]

\* ArrayOfMaps::get
ArrayOfMaps_get(index) ==
    LET value == helpers_bpf_map_lookup_elem(prog.obj.def, index) IN
    [res |-> IF value = None THEN OptionNone ELSE OptionSome(CHOOSE v \in value : TRUE),
     slots |-> slots,
     calls |-> <<Call("bpf_map_lookup_elem", "none")>>]

\* HashOfMaps::<K>::get
HashOfMaps_get(key) ==
    LET value == helpers_bpf_map_lookup_elem(prog.obj.def, key) IN
    [res |-> IF value = None THEN OptionNone ELSE OptionSome(CHOOSE v \in value : TRUE),
     slots |-> slots,
     calls |-> <<Call("bpf_map_lookup_elem", "none")>>]

\* the statics of the programs that are run: one of each form and constructor
RunStatics == {s \in Statics : s.max_entries = MaxEntries /\ s.flags = 0}

\* the program image holds the static; the loader has parsed it
Image(statics) ==
    /\ prog \in statics
    /\ Sequential
    /\ map = [def |-> ParsedDef(prog.obj.def), fd |-> None]
    /\ wrapper = "none"
    /\ slots = [k \in Keys |-> NoMap]
    /\ fds = [n \in FdNums |-> Closed]
    /\ written = [k \in Keys |-> "never"]
    /\ installed = [k \in Keys |-> NoMap]
    /\ last = Done("init", 0, None, Ok, <<>>, <<>>)

InitBpf == Image(RunStatics)

InitCtor == Image(Statics)

\* the loader creates the map in the kernel and attaches the program
BpfLoad ==
    /\ map.fd = None
    /\ map' = [map EXCEPT !.fd = {OuterFd}]
    /\ fds' = [fds EXCEPT ![OuterFd] = OuterTag]
    /\ last' = Done("load", 0, None, Ok, <<>>, <<>>)
    /\ UNCHANGED <<procs, kern, prog, wrapper, slots, written, installed>>

\* a run of the attached program calls get on its static
EmbeddedGet(key, o) ==
    /\ slots' = o.slots
    /\ last' = Done("bpf_get", key, None, o.res, <<>>, o.calls)
    /\ UNCHANGED <<procs, kern, prog, map, wrapper, fds, written, installed>>

ArrayOfMapsGet ==
    /\ prog.kind = "ArrayOfMaps"
    /\ map.fd # None
    /\ \E index \in Keys : EmbeddedGet(index, ArrayOfMaps_get(index))

HashOfMapsGet ==
    /\ prog.kind = "HashOfMaps"
    /\ map.fd # None
    /\ \E key \in HashKeys : EmbeddedGet(key, HashOfMaps_get(key))

NextBpf ==
    \/ BpfLoad
    \/ ArrayNew
    \/ HashMapNew
    \/ ArraySet
    \/ ArrayDelete
    \/ HashMapInsert
    \/ HashMapRemove
    \/ CallerOpen
    \/ CallerClose
    \/ ArrayOfMapsGet
    \/ HashOfMapsGet

SpecBpf == InitBpf /\ [][NextBpf]_vars

\* building, loading and wrapping a static, for every constructor and argument
NextCtor ==
    \/ BpfLoad
    \/ ArrayNew
    \/ HashMapNew

SpecCtor == InitCtor /\ [][NextCtor]_vars

\* ---- several callers on one outer map -------------------------------------------
\* The callers are threads of one process: they share the descriptor table and
\* each owns the descriptors it holds. The kernel runs each syscall atomically;
\* a call of the wrapper is one step per syscall it issues.

\* the first and the last slot, which the callers contend for, and for the
\* array form the first index out of bounds
ContendedKeys ==
    {0, MaxEntries - 1, MaxEntries} \cap (IF wrapper = "Array" THEN Keys ELSE HashKeys)

\* a kernel that takes no reference of its own
KernelBorrows(k, m) == k

\* bpf_map_get / bpf_map_inc: one more reference to inner map m
KernelTake(k, m) == [k EXCEPT ![m] = [refs |-> @.refs + 1, life |-> @.life]]

\* bpf_map_put: one reference less; the map is released with its last one
KernelDrop(k, m) ==
    IF m = NoMap THEN k
    ELSE [k EXCEPT ![m] = IF @.refs = 1
                          THEN [refs |-> 0, life |-> "released"]
                          ELSE [refs |-> @.refs - 1, life |-> @.life]]

\* the next id the kernel gives to a new map
Unborn == {m \in MapIds : kern[m].life = "unborn"}
NextId == CHOOSE m \in Unborn : \A o \in Unborn : m <= o

\* get_fd_by_id(id) of a kernel that has released the map: no such id
kernel_get_fd_by_id(id, table, os) ==
    IF os = "none" /\ kern[id].life # "alive"
    THEN [err |-> "ENOENT", fd |-> OuterFd, fds |-> table]
    ELSE bpf_map_get_fd_by_id(id, table, os)

\* set / insert that removes the entry when its update fails
SetCallClearsOnFailure(key, map_fd, os) ==
    LET o == IF wrapper = "Array" THEN ArraySetOut(key, map_fd, os)
             ELSE HashMapInsertOut(key, map_fd, os) IN
    IF IsOk(o.res) \/ key \notin HashKeys THEN o
    ELSE [o EXCEPT !.slots = [slots EXCEPT ![key] = NoMap]]

\* Array::set / HashMap::insert of the handle the callers share
SetCall(key, map_fd, os) ==
    IF wrapper = "Array" THEN ArraySetOut(key, map_fd, os)
    ELSE HashMapInsertOut(key, map_fd, os)

\* Array::delete / HashMap::remove of the handle the callers share
DeleteCall(key, os) ==
    IF wrapper = "Array" THEN ArrayDeleteOut(key, os)
    ELSE HashMapRemoveOut(key, os)

\* get up to and including the lookup syscall: id is the value found
GetLookup(key, os1) ==
    IF wrapper = "Array" /\ ~IsOk(check_bounds(key))
    THEN [res |-> check_bounds(key), id |-> NoMap]
    ELSE IF ~IsOk(fd_or_err(map)) THEN [res |-> fd_or_err(map), id |-> NoMap]
    ELSE LET l == bpf_map_lookup_elem(key, os1) IN
         IF l.err # "none"
         THEN [res |-> SyscallError("bpf_map_lookup_elem", -1, l.err), id |-> NoMap]
         ELSE IF l.val = NoMap THEN [res |-> KeyNotFound, id |-> NoMap]
         ELSE [res |-> Ok, id |-> l.val]

\* the resolution looking the key up again instead of using the id it has
GetResolveRereads(key, id, table, os2) ==
    LET g == kernel_get_fd_by_id(IF slots[key] = NoMap THEN id ELSE slots[key], table, os2) IN
    IF g.err # "none"
    THEN [res |-> SyscallError("bpf_map_get_fd_by_id", 0, g.err), fds |-> table,
          took |-> NoMap]
    ELSE [res |-> OkFd(g.fd), fds |-> g.fds,
          took |-> IF slots[key] = NoMap THEN id ELSE slots[key]]

\* the rest of get: the id-to-descriptor syscall and the return; took is the
\* map the new descriptor refers to
GetResolve(key, id, table, os2) ==
    LET g == kernel_get_fd_by_id(id, table, os2) IN
    IF g.err # "none"
    THEN [res |-> SyscallError("bpf_map_get_fd_by_id", 0, g.err), fds |-> table,
          took |-> NoMap]
    ELSE [res |-> OkFd(g.fd), fds |-> g.fds, took |-> id]

InitConc ==
    /\ wrapper \in {"Array", "HashMap"}
    /\ map = [def |-> [map_type |-> IF wrapper = "Array" THEN BPF_MAP_TYPE_ARRAY_OF_MAPS
                                    ELSE BPF_MAP_TYPE_HASH_OF_MAPS,
                       key_size |-> IF wrapper = "Array" THEN SizeOfU32 ELSE SizeOfK,
                       value_size |-> SizeOfU32,
                       max_entries |-> MaxEntries],
              fd |-> {OuterFd}]
    /\ prog = NoProg
    /\ slots = [k \in Keys |-> NoMap]
    /\ fds = [n \in FdNums |-> IF n = OuterFd THEN OuterTag ELSE Closed]
    /\ written = [k \in Keys |-> "never"]
    /\ installed = [k \in Keys |-> NoMap]
    /\ procs = [p \in Callers |-> Idle({})]
    /\ kern = [m \in MapIds |-> [refs |-> 0, life |-> "unborn"]]
    /\ last = Done("init", 0, None, Ok, <<>>, <<>>)

\* set / insert, first step: everything up to and including the update syscall.
\* The caller has given its descriptor away; an error returns here.
ConcSet(p) ==
    /\ procs[p].pc = "idle"
    /\ \E key \in ContendedKeys, map_fd \in procs[p].held, os \in Faults :
          LET o == SetCall(key, map_fd, os) IN
          /\ slots' = o.slots
          /\ installed' = IF IsOk(o.res) THEN [installed EXCEPT ![key] = fds[map_fd]]
                          ELSE installed
          /\ kern' = IF IsOk(o.res) THEN KernelDrop(KernelTake(kern, fds[map_fd]), slots[key])
                     ELSE kern
          /\ procs' = [procs EXCEPT ![p] =
                          IF IsOk(o.res)
                          THEN [pc |-> "set_close", key |-> key, arg |-> map_fd, seen |-> 0,
                                held |-> @.held \ {map_fd}]
                          ELSE Idle(@.held \ {map_fd})]
    /\ UNCHANGED <<prog, map, wrapper, fds, written, last>>

\* set / insert, second step: close the supplied descriptor and return Ok
ConcSetClose(p) ==
    /\ procs[p].pc = "set_close"
    /\ fds' = CloseSupplied(procs[p].arg).fds
    /\ kern' = KernelDrop(kern, fds[procs[p].arg])
    /\ procs' = [procs EXCEPT ![p] = Idle(@.held)]
    /\ UNCHANGED <<prog, map, wrapper, slots, written, installed, last>>

\* delete / remove: one syscall
ConcDelete(p) ==
    /\ procs[p].pc = "idle"
    /\ \E key \in ContendedKeys, os \in Faults :
          LET o == DeleteCall(key, os) IN
          /\ slots' = o.slots
          /\ installed' = IF IsOk(o.res) THEN [installed EXCEPT ![key] = NoMap] ELSE installed
          /\ kern' = IF IsOk(o.res) THEN KernelDrop(kern, slots[key]) ELSE kern
    /\ UNCHANGED <<prog, map, wrapper, fds, written, procs, last>>

\* get, first step: the lookup syscall; seen is what the callers had installed
\* under the key at this moment
ConcGetLookup(p) ==
    /\ procs[p].pc = "idle"
    /\ \E key \in ContendedKeys, os1 \in Faults :
          LET o == GetLookup(key, os1) IN
          /\ procs' = [procs EXCEPT ![p] =
                          IF IsOk(o.res)
                          THEN [pc |-> "get_resolve", key |-> key, arg |-> o.id,
                                seen |-> installed[key], held |-> @.held]
                          ELSE @]
    /\ UNCHANGED <<prog, map, wrapper, slots, fds, written, installed, kern, last>>

\* get, second step: the id-to-descriptor syscall and the return
ConcGetResolve(p) ==
    /\ procs[p].pc = "get_resolve"
    /\ \E os2 \in Faults :
          LET o == GetResolve(procs[p].key, procs[p].arg, fds, os2) IN
          /\ fds' = o.fds
          /\ kern' = IF IsOk(o.res) THEN KernelTake(kern, o.took) ELSE kern
          /\ procs' = [procs EXCEPT ![p] =
                          Idle(IF IsOk(o.res) THEN @.held \cup {o.res.fd} ELSE @.held)]
    /\ UNCHANGED <<prog, map, wrapper, slots, written, installed, last>>

\* a caller creates an inner map and holds its descriptor
ConcCreate(p) ==
    /\ procs[p].pc = "idle"
    /\ FreeFds(fds) # {}
    /\ Unborn # {}
    /\ fds' = [fds EXCEPT ![LowestFree(fds)] = NextId]
    /\ kern' = [kern EXCEPT ![NextId] = [refs |-> 1, life |-> "alive"]]
    /\ procs' = [procs EXCEPT ![p] = Idle(@.held \cup {LowestFree(fds)})]
    /\ UNCHANGED <<prog, map, wrapper, slots, written, installed, last>>

\* a caller closes a descriptor it holds
ConcClose(p) ==
    /\ procs[p].pc = "idle"
    /\ \E n \in procs[p].held :
          /\ fds' = close(fds, n)
          /\ kern' = KernelDrop(kern, fds[n])
          /\ procs' = [procs EXCEPT ![p] = Idle(@.held \ {n})]
    /\ UNCHANGED <<prog, map, wrapper, slots, written, installed, last>>

NextConc ==
    \/ \E p \in Callers : ConcSet(p)
    \/ \E p \in Callers : ConcSetClose(p)
    \/ \E p \in Callers : ConcDelete(p)
    \/ \E p \in Callers : ConcGetLookup(p)
    \/ \E p \in Callers : ConcGetResolve(p)
    \/ \E p \in Callers : ConcCreate(p)
    \/ \E p \in Callers : ConcClose(p)

SpecConc == InitConc /\ [][NextConc]_vars

\* ---- the claims -------------------------------------------------------------
WrapperOps == {"get", "set", "delete", "insert", "remove", "iter"}
Supplied == CHOOSE n \in last.fd : TRUE
AllCallsOk(c) == \A i \in 1..Len(c.calls) : c.calls[i].err = "none"
InBounds(c) == wrapper = "HashMap" \/ c.key < map.def.max_entries

\* C1: for Array::set and HashMap::insert, on every exit path the descriptor
\* the caller supplied is closed in the calling process when the call returns.
C1_SuppliedClosedOnEveryExit ==
    last.op \in {"set", "insert"} => fds[Supplied] = Closed

\* C2: a wrapper call closes the supplied descriptor at most once and closes
\* no other descriptor (every descriptor open before the call and not open
\* after it is the supplied one, closed by exactly one close); after a
\* successful set/insert the slot holds the installed inner map although the
\* local descriptor is closed.
C2_ClosesOnlySuppliedOnce ==
    [][last'.op \in WrapperOps =>
          /\ Len(last'.closed) <= 1
          /\ \A n \in FdNums :
                (fds[n] # Closed /\ fds'[n] = Closed) =>
                    (last'.fd = {n} /\ last'.closed = <<n>>)
          /\ \A i \in 1..Len(last'.closed) :
                last'.fd = {last'.closed[i]} /\ fds[last'.closed[i]] \in MapIds
          /\ (last'.op \in {"set", "insert"} /\ IsOk(last'.res)) =>
                (slots'[last'.key] = last'.m /\ last'.m \in MapIds)]_vars

C2_Witness ==
    /\ last.op = "set"
    /\ IsOk(last.res)
    /\ last.closed = <<Supplied>>
    /\ fds[Supplied] = Closed
    /\ fds[OuterFd] = OuterTag
    /\ slots[last.key] = last.m

IsNew == last.op \in {"Array::new", "HashMap::new"}
ExpectedType ==
    IF last.op = "Array::new" THEN BPF_MAP_TYPE_ARRAY_OF_MAPS ELSE BPF_MAP_TYPE_HASH_OF_MAPS
ExpectedKeySize == IF last.op = "Array::new" THEN SizeOfU32 ELSE SizeOfK
TypeMismatch == map.def.map_type # ExpectedType
KeyMismatch == map.def.key_size # ExpectedKeySize
ValueMismatch == map.def.value_size # SizeOfU32

SyscallFailed(c) ==
    /\ c.res.kind = "SyscallError"
    /\ c.calls # <<>>
    /\ c.calls[Len(c.calls)].err # "none"
    /\ c.calls[Len(c.calls)].call = c.res.call

\* C6: round trip: when the last write to a slot that returned Ok was
\* set/insert of a descriptor of map M, get on that index/key returns a
\* descriptor that refers to M and that was not open before the get (a new
\* one, not the descriptor passed to set, which is closed); the only other
\* outcome is the error of a syscall that failed.
C6_RoundTrip ==
    [][(last'.op = "get" /\ written[last'.key] = "set") =>
          \/ /\ IsOk(last'.res)
             /\ last'.res.fd \in InnerFds
             /\ fds[last'.res.fd] = Closed
             /\ fds'[last'.res.fd] = installed[last'.key]
             /\ installed[last'.key] \in MapIds
          \/ SyscallFailed(last')]_vars

C6_Witness ==
    /\ last.op = "get"
    /\ written[last.key] = "set"
    /\ IsOk(last.res)
    /\ fds[last.res.fd] = installed[last.key]

\* C7: get on an in-bounds index / a key with no inner map installed returns
\* KeyNotFound; absence is never reported as a SyscallError (a SyscallError
\* there is the lookup call itself failing).
C7_UnwrittenIsKeyNotFound ==
    (last.op = "get" /\ InBounds(last) /\ last.pre = NoMap) =>
        \/ last.res = KeyNotFound /\ AllCallsOk(last)
        \/ /\ SyscallFailed(last)
           /\ last.res.call = "bpf_map_lookup_elem"
           /\ last.calls[1].err = "EPERM"

C7_Witness ==
    /\ last.op = "get"
    /\ InBounds(last)
    /\ last.pre = NoMap
    /\ last.res = KeyNotFound

\* C8: after a set/insert that returned Ok and then a delete/remove of the
\* same index/key that returned Ok, with no later write to it, get returns
\* KeyNotFound (or the error of a failed lookup call).
C8_GetAfterDelete ==
    (last.op = "get" /\ written[last.key] = "set_deleted") =>
        \/ last.res = KeyNotFound
        \/ SyscallFailed(last) /\ last.res.call = "bpf_map_lookup_elem"

C8_Witness ==
    /\ wrapper = "Array"
    /\ last.op = "get"
    /\ written[last.key] = "set_deleted"
    /\ last.res = KeyNotFound

\* C9: HashMap::iter yields one item per installed entry and nothing else:
\* each pair has the key of an installed entry and a descriptor that refers
\* to the map installed under that key, no key twice; an item that is no pair
\* is the error of a syscall that failed; with no entry the sequence is empty.
InstalledKeys == {k \in Keys : installed[k] # NoMap}
FailedCalls(c) == {i \in 1..Len(c.calls) : c.calls[i].err # "none"}
C9_WitnessEmptied ==
    /\ last.op = "iter"
    /\ last.res.items = <<>>
    /\ \E k \in Keys : written[k] = "set_deleted"

SingleOps == {"get", "set", "delete", "insert", "remove"}
CallNames(c) == {c.calls[i].call : i \in 1..Len(c.calls)}
IssuedTimes(c, name) == Cardinality({i \in 1..Len(c.calls) : c.calls[i].call = name})
AllowedCalls(op) ==
    IF op = "get" THEN {"bpf_map_lookup_elem", "bpf_map_get_fd_by_id"}
    ELSE IF op \in {"set", "insert"} THEN {"bpf_map_update_elem"}
    ELSE {"bpf_map_delete_elem"}

\* C13: no retry: a get issues at most one lookup and at most one id-to-fd
\* call, a set/insert at most one update, a delete/remove at most one delete;
\* nothing is issued after a call that failed, and that first failure is what
\* the caller gets back, as a SyscallError value.
C13_NoRetry ==
    last.op \in SingleOps =>
        /\ CallNames(last) \subseteq AllowedCalls(last.op)
        /\ \A name \in AllowedCalls(last.op) : IssuedTimes(last, name) <= 1
        /\ \A i \in 1..Len(last.calls) : i < Len(last.calls) => last.calls[i].err = "none"
        /\ (last.calls # <<>> /\ last.calls[Len(last.calls)].err # "none") =>
              /\ last.res.kind = "SyscallError"
              /\ last.res.call = last.calls[Len(last.calls)].call
        /\ last.res.kind \in {"Ok", "OutOfBounds", "KeyNotFound", "SyscallError", "NotCreated"}

C13_Witness ==
    /\ last.op = "set"
    /\ last.res.kind = "SyscallError"
    /\ Len(last.calls) = 1
    /\ last.calls[1] = Call("bpf_map_update_elem", "EPERM")

\* C17: every SyscallError of get/set/delete names the call that failed and
\* carries the raw code that call returned and its OS error: lookup,
\* id-to-fd resolution, update and delete each under their own name.
C17_ErrorNamesCallAndCode ==
    (last.op \in SingleOps /\ last.res.kind = "SyscallError") =>
        /\ last.calls # <<>>
        /\ last.res.call = last.calls[Len(last.calls)].call
        /\ last.res.call \in AllowedCalls(last.op)
        /\ last.res.io_error = last.calls[Len(last.calls)].err
        /\ last.res.io_error # "none"
        /\ last.res.code = RawCode(last.calls[Len(last.calls)].err)

\* C18: a call that returns an error leaves every slot of the outer map as
\* it was, get and iter never change a slot, and a call that returns
\* OutOfBounds has issued no syscall.
C18_ErrorsLeaveSlots ==
    [][last'.op \in WrapperOps =>
          /\ ~IsOk(last'.res) => slots' = slots
          /\ last'.op \in {"get", "iter"} => slots' = slots
          /\ last'.res.kind = "OutOfBounds" => (last'.calls = <<>> /\ slots' = slots)]_vars

C18_Witness ==
    /\ last.op = "delete"
    /\ last.res.kind = "OutOfBounds"
    /\ last.calls = <<>>
    /\ \E k \in Keys : slots[k] # NoMap

\* ---- the claims on the embedded wrappers -------------------------------------
\* C11: the embedded wrappers are get-only: get returns none when the helper
\* returns null (nothing under the index/key) and otherwise the value stored
\* there, with exactly one helper call; no embedded operation changes a slot,
\* so the outer map holds, under every key, what userspace installed last.
C11_EmbeddedGetOnly ==
    [][/\ last'.op = "bpf_get" =>
             /\ slots' = slots
             /\ last'.calls = <<Call("bpf_map_lookup_elem", "none")>>
             /\ (last'.res.kind = "None") <=> (slots[last'.key] = NoMap)
             /\ slots[last'.key] # NoMap =>
                    last'.res = OptionSome(slots[last'.key])
       /\ \A k \in Keys : slots'[k] = installed'[k]]_vars

C11_Witness ==
    /\ last.op = "bpf_get"
    /\ last.res.kind = "Some"
    /\ last.res.value = installed[last.key]
    /\ last.res.value # last.key
    /\ \E k \in Keys : k # last.key /\ slots[k] # NoMap

\* C14: an embedded constructor builds a descriptor with the type tag of its
\* wrapper, key_size 4 (ArrayOfMaps) or size_of(K) (HashOfMaps<K>),
\* value_size 4, max_entries and flags as given, id 0, pinning None for
\* with_max_entries and ByName for pinned; once loaded, the descriptor passes
\* the construction checks of the dynamic wrapper of the same form.
C14_BuiltDescriptorPasses ==
    prog.kind # "none" =>
        /\ prog.obj.def.type_ = IF prog.kind = "ArrayOfMaps"
                                THEN BPF_MAP_TYPE_ARRAY_OF_MAPS
                                ELSE BPF_MAP_TYPE_HASH_OF_MAPS
        /\ prog.obj.def.key_size = IF prog.kind = "ArrayOfMaps" THEN SizeOfU32 ELSE SizeOfK
        /\ prog.obj.def.value_size = SizeOfU32
        /\ prog.obj.def.max_entries = prog.max_entries
        /\ prog.obj.def.map_flags = prog.flags
        /\ prog.obj.def.id = 0
        /\ prog.obj.def.pinning = IF prog.ctor = "with_max_entries"
                                  THEN PinningType_None
                                  ELSE PinningType_ByName
        /\ map.fd # None =>
              /\ prog.kind = "ArrayOfMaps" => IsOk(ArrayNewResult(map))
              /\ prog.kind = "HashOfMaps" => IsOk(HashMapNewResult(map))
        /\ (map.fd # None /\ last.op = "Array::new" /\ prog.kind = "ArrayOfMaps") =>
              (IsOk(last.res) /\ wrapper = "Array")
        /\ (map.fd # None /\ last.op = "HashMap::new" /\ prog.kind = "HashOfMaps") =>
              (IsOk(last.res) /\ wrapper = "HashMap")

C14_Witness ==
    /\ prog.kind = "HashOfMaps"
    /\ prog.ctor = "pinned"
    /\ prog.flags # 0
    /\ last.op = "HashMap::new"
    /\ IsOk(last.res)

References(m) ==
    Cardinality({k \in Keys : slots[k] = m}) + Cardinality({n \in InnerFds : fds[n] = m})

\* C15: the kernel holds one reference per slot that references an inner map
\* and one per open descriptor of it; a map that was created is alive if and
\* only if a reference remains, so a map a slot references stays alive with
\* no descriptor open, and a map with neither is released.
C15_AliveIffReferenced ==
    \A m \in MapIds :
        /\ kern[m].refs = References(m)
        /\ kern[m].life = "alive" <=> References(m) > 0
        /\ kern[m].life \in {"unborn", "alive", "released"}
        /\ (\E k \in Keys : installed[k] = m) => kern[m].life = "alive"

C15_Witness ==
    /\ \E m \in MapIds :
          /\ kern[m].life = "alive"
          /\ \A n \in InnerFds : fds[n] # m
          /\ \E k \in Keys : slots[k] = m
    /\ \E m \in MapIds :
          /\ kern[m].life = "released"
          /\ \A k \in Keys : slots[k] # m

\* C16: a get whose lookup found a map returns, whatever other callers do
\* between its two syscalls, either a SyscallError or a new descriptor of the
\* map that was installed under the key when the lookup ran; every descriptor
\* a caller holds keeps referring to the same, alive, map until that caller
\* closes it, whether or not the entry is still there.
C16_GetReturnsMapSeenAtLookup ==
    [][/\ \A p \in Callers :
             (procs[p].pc = "get_resolve" /\ procs'[p].pc = "idle") =>
                 /\ procs[p].seen \in MapIds
                 /\ procs[p].arg = procs[p].seen
                 /\ \E os2 \in Faults :
                       LET o == GetResolve(procs[p].key, procs[p].arg, fds, os2) IN
                       /\ fds' = o.fds
                       /\ IsOk(o.res) =>
                             /\ fds[o.res.fd] = Closed
                             /\ fds'[o.res.fd] = procs[p].seen
                             /\ procs'[p].held = procs[p].held \cup {o.res.fd}
                       /\ ~IsOk(o.res) =>
                             /\ o.res.kind = "SyscallError"
                             /\ fds' = fds
                             /\ procs'[p].held = procs[p].held
       /\ \A p \in Callers : \A n \in procs'[p].held :
             /\ fds'[n] \in MapIds
             /\ kern'[fds'[n]].life = "alive"
             /\ n \in procs[p].held => fds'[n] = fds[n]]_vars

\* a get between its two syscalls, the entry it looked up gone or replaced,
\* and the resolution about to succeed
C16_Witness ==
    \E p \in Callers :
        /\ procs[p].pc = "get_resolve"
        /\ slots[procs[p].key] # procs[p].seen
        /\ kern[procs[p].seen].life = "alive"
        /\ FreeFds(fds) # {}

====
